---------------------------- MODULE Spec2Model ----------------------------
(***************************************************************************)
(* Model of package govee (src/govee.go): NewVersion, the Version record   *)
(* and its accessors, together with the library calls NewVersion makes     *)
(* (semver.Make, time.Parse, fmt.Sprintf, append).                         *)
(*                                                                         *)
(* A Go string is a sequence of one-character strings, so parsing and      *)
(* formatting are computed character by character.  A Go slice is a        *)
(* header [ptr, len, cap] over an array kept in the heap, so that two      *)
(* slice headers can share storage.                                        *)
(*                                                                         *)
(* uint64 and int are modelled WordBits wide (the code's are 64 bits wide; *)
(* TLC's integers are narrower than that).  Every input that exercises the *)
(* width is derived from WordBits.                                         *)
(***************************************************************************)
EXTENDS Integers, Sequences, FiniteSets, TLC

\* Scaled width of uint64 / int.
WordBits == 4
\* Largest number of pre-release identifiers in a generated version string.
MaxPre == 2
\* Largest number of build-metadata identifiers in a generated version string.
MaxBuild == 1

MaxUint == 2^WordBits - 1
MaxInt == 2^(WordBits - 1) - 1

---------------------------------------------------------------------------
(* Characters and strings                                                  *)

\* semver: const numbers
numbers == {"0", "1", "2", "3", "4", "5", "6", "7", "8", "9"}
UpperLetters ==
    {"A", "B", "C", "D", "E", "F", "G", "H", "I", "J", "K", "L", "M",
     "N", "O", "P", "Q", "R", "S", "T", "U", "V", "W", "X", "Y", "Z"}
LowerLetters ==
    {"a", "b", "c", "d", "e", "f", "g", "h", "i", "j", "k", "l", "m",
     "n", "o", "p", "q", "r", "s", "t", "u", "v", "w", "x", "y", "z"}
\* semver: const alphas (letters and the hyphen), alphanum = alphas + numbers
alphas == UpperLetters \cup LowerLetters \cup {"-"}
alphanum == alphas \cup numbers

DigitVal(c) ==
    CASE c = "0" -> 0 [] c = "1" -> 1 [] c = "2" -> 2 [] c = "3" -> 3
      [] c = "4" -> 4 [] c = "5" -> 5 [] c = "6" -> 6 [] c = "7" -> 7
      [] c = "8" -> 8 [] c = "9" -> 9

DigitChar(d) ==
    CASE d = 0 -> "0" [] d = 1 -> "1" [] d = 2 -> "2" [] d = 3 -> "3"
      [] d = 4 -> "4" [] d = 5 -> "5" [] d = 6 -> "6" [] d = 7 -> "7"
      [] d = 8 -> "8" [] d = 9 -> "9"

\* s[from:] with a 1-based index
Tail_(s, from) == SubSeq(s, from, Len(s))

\* strings.IndexRune: 1-based index of the first c in s, 0 when there is none
IndexRune(s, c) ==
    IF \E i \in 1..Len(s) : s[i] = c
    THEN CHOOSE i \in 1..Len(s) : s[i] = c /\ \A j \in 1..(i - 1) : s[j] # c
    ELSE 0

\* strings.Split(s, sep) for a one-character sep: always at least one part
RECURSIVE Split(_, _)
Split(s, sep) ==
    LET i == IndexRune(s, sep)
    IN  IF i = 0 THEN <<s>>
        ELSE <<SubSeq(s, 1, i - 1)>> \o Split(Tail_(s, i + 1), sep)

\* strings.SplitN(s, sep, n) for n > 0: at most n parts, the last unsplit
RECURSIVE SplitN(_, _, _)
SplitN(s, sep, n) ==
    LET i == IndexRune(s, sep)
    IN  IF n = 1 \/ i = 0 THEN <<s>>
        ELSE <<SubSeq(s, 1, i - 1)>> \o SplitN(Tail_(s, i + 1), sep, n - 1)

\* semver: containsOnly(s, set)
containsOnly(s, set) == \A i \in 1..Len(s) : s[i] \in set

\* semver: hasLeadingZeroes(s)
hasLeadingZeroes(s) == Len(s) > 1 /\ s[1] = "0"

---------------------------------------------------------------------------
(* Values of type error: the package that made the error and its message;  *)
(* NoErr is nil.                                                           *)

NoErr == [pkg |-> "", msg |-> "nil"]
SemverErr(m) == [pkg |-> "semver", msg |-> m]
StrconvErr(m) == [pkg |-> "strconv", msg |-> m]
TimeErr(m) == [pkg |-> "time", msg |-> m]

---------------------------------------------------------------------------
(* strconv                                                                 *)

\* strconv.ParseUint(s, 10, 64): the value, or the error it returns.
\* n is the value read so far, i the next character.
RECURSIVE ParseUintFrom(_, _, _)
ParseUintFrom(s, i, n) ==
    IF i > Len(s) THEN [ok |-> TRUE, val |-> n, err |-> NoErr]
    ELSE IF s[i] \notin numbers
         THEN [ok |-> FALSE, val |-> 0, err |-> StrconvErr("invalid syntax")]
    ELSE IF n >= MaxUint \div 10 + 1
         THEN [ok |-> FALSE, val |-> MaxUint, err |-> StrconvErr("value out of range")]
    ELSE IF n * 10 + DigitVal(s[i]) > MaxUint
         THEN [ok |-> FALSE, val |-> MaxUint, err |-> StrconvErr("value out of range")]
    ELSE ParseUintFrom(s, i + 1, n * 10 + DigitVal(s[i]))

ParseUint(s) ==
    IF Len(s) = 0
    THEN [ok |-> FALSE, val |-> 0, err |-> StrconvErr("invalid syntax")]
    ELSE ParseUintFrom(s, 1, 0)

\* strconv.FormatUint(n, 10) / strconv.AppendUint
RECURSIVE FormatUint(_)
FormatUint(n) ==
    IF n < 10 THEN <<DigitChar(n)>>
    ELSE FormatUint(n \div 10) \o <<DigitChar(n % 10)>>

\* The conversion int(x) of a uint64 x: the same bits read as two's complement
IntOfUint(x) == IF x > MaxInt THEN x - 2^WordBits ELSE x

---------------------------------------------------------------------------
(* github.com/blang/semver                                                 *)

\* The zero semver.Version
ZeroSemver == [Major |-> 0, Minor |-> 0, Patch |-> 0, Pre |-> <<>>, Build |-> <<>>]

\* semver.NewPRVersion(s)
NewPRVersion(s) ==
    IF Len(s) = 0
    THEN [err |-> SemverErr("Prerelease is empty")]
    ELSE IF containsOnly(s, numbers)
    THEN IF hasLeadingZeroes(s)
         THEN [err |-> SemverErr("Numeric PreRelease version must not contain leading zeroes")]
         ELSE IF ~ParseUint(s).ok
         THEN [err |-> ParseUint(s).err]
         ELSE [err |-> NoErr,
               pr |-> [VersionStr |-> <<>>, VersionNum |-> ParseUint(s).val, IsNum |-> TRUE]]
    ELSE IF containsOnly(s, alphanum)
    THEN [err |-> NoErr, pr |-> [VersionStr |-> s, VersionNum |-> 0, IsNum |-> FALSE]]
    ELSE [err |-> SemverErr("Invalid character(s) found in prerelease")]

\* One of the three numeric components of semver.Parse
ParseNumber(s) ==
    IF ~containsOnly(s, numbers)
    THEN [ok |-> FALSE, val |-> 0, err |-> SemverErr("Invalid character(s) found in number")]
    ELSE IF hasLeadingZeroes(s)
    THEN [ok |-> FALSE, val |-> 0, err |-> SemverErr("number must not contain leading zeroes")]
    ELSE ParseUint(s)

\* The build-metadata loop of semver.Parse: the first error, or NoErr
BuildError(build) ==
    IF \E i \in 1..Len(build) : Len(build[i]) = 0 \/ ~containsOnly(build[i], alphanum)
    THEN LET i == CHOOSE k \in 1..Len(build) :
                    /\ Len(build[k]) = 0 \/ ~containsOnly(build[k], alphanum)
                    /\ \A j \in 1..(k - 1) :
                          Len(build[j]) > 0 /\ containsOnly(build[j], alphanum)
         IN  IF Len(build[i]) = 0
             THEN SemverErr("Build meta data is empty")
             ELSE SemverErr("Invalid character(s) found in build meta data")
    ELSE NoErr

\* The pre-release loop of semver.Parse: the first error, or NoErr
PreError(pre) ==
    IF \E i \in 1..Len(pre) : NewPRVersion(pre[i]).err # NoErr
    THEN LET i == CHOOSE k \in 1..Len(pre) :
                    /\ NewPRVersion(pre[k]).err # NoErr
                    /\ \A j \in 1..(k - 1) : NewPRVersion(pre[j]).err = NoErr
         IN  NewPRVersion(pre[i]).err
    ELSE NoErr

\* semver.Parse(s): [err, v]
Parse(s) ==
    IF Len(s) = 0 THEN [err |-> SemverErr("Version string empty"), v |-> ZeroSemver]
    ELSE
    LET parts == SplitN(s, ".", 3) IN
    IF Len(parts) # 3
    THEN [err |-> SemverErr("No Major.Minor.Patch elements found"), v |-> ZeroSemver]
    ELSE
    LET major == ParseNumber(parts[1])
        minor == ParseNumber(parts[2])
        buildIndex == IndexRune(parts[3], "+")
        build == IF buildIndex # 0
                 THEN Split(Tail_(parts[3], buildIndex + 1), ".") ELSE <<>>
        patchStr1 == IF buildIndex # 0
                     THEN SubSeq(parts[3], 1, buildIndex - 1) ELSE parts[3]
        preIndex == IndexRune(patchStr1, "-")
        prerelease == IF preIndex # 0
                      THEN Split(Tail_(patchStr1, preIndex + 1), ".") ELSE <<>>
        patchStr == IF preIndex # 0
                    THEN SubSeq(patchStr1, 1, preIndex - 1) ELSE patchStr1
        patch == ParseNumber(patchStr)
    IN  IF ~major.ok THEN [err |-> major.err, v |-> ZeroSemver]
        ELSE IF ~minor.ok THEN [err |-> minor.err, v |-> ZeroSemver]
        ELSE IF ~patch.ok THEN [err |-> patch.err, v |-> ZeroSemver]
        ELSE IF PreError(prerelease) # NoErr
             THEN [err |-> PreError(prerelease), v |-> ZeroSemver]
        ELSE IF BuildError(build) # NoErr
             THEN [err |-> BuildError(build), v |-> ZeroSemver]
        ELSE [err |-> NoErr,
              v |-> [Major |-> major.val, Minor |-> minor.val, Patch |-> patch.val,
                     Pre |-> [i \in 1..Len(prerelease) |-> NewPRVersion(prerelease[i]).pr],
                     Build |-> build]]

\* semver.Make(s)
Make(s) == Parse(s)

\* semver.PRVersion.String()
PRString(pr) == IF pr.IsNum THEN FormatUint(pr.VersionNum) ELSE pr.VersionStr

\* strings.Join(parts, sep)
RECURSIVE Join(_, _)
Join(parts, sep) ==
    IF Len(parts) = 0 THEN <<>>
    ELSE IF Len(parts) = 1 THEN parts[1]
    ELSE parts[1] \o sep \o Join(Tail(parts), sep)

\* semver.Version.String()
SemverString(sv) ==
    FormatUint(sv.Major) \o <<".">> \o FormatUint(sv.Minor) \o <<".">>
      \o FormatUint(sv.Patch)
      \o (IF Len(sv.Pre) > 0
          THEN <<"-">> \o Join([i \in 1..Len(sv.Pre) |-> PRString(sv.Pre[i])], <<".">>)
          ELSE <<>>)
      \o (IF Len(sv.Build) > 0 THEN <<"+">> \o Join(sv.Build, <<".">>) ELSE <<>>)

---------------------------------------------------------------------------
(* package time: time.Parse(time.UnixDate, value)                          *)

UpperSeq ==
    <<"A", "B", "C", "D", "E", "F", "G", "H", "I", "J", "K", "L", "M",
      "N", "O", "P", "Q", "R", "S", "T", "U", "V", "W", "X", "Y", "Z">>
LowerSeq ==
    <<"a", "b", "c", "d", "e", "f", "g", "h", "i", "j", "k", "l", "m",
      "n", "o", "p", "q", "r", "s", "t", "u", "v", "w", "x", "y", "z">>

\* c |= 'a' - 'A' on a letter
ToLower(c) ==
    IF c \in UpperLetters
    THEN LowerSeq[CHOOSE i \in 1..26 : UpperSeq[i] = c]
    ELSE c

\* time.match(s1, s2): equal up to the case of ASCII letters
match(s1, s2) ==
    \A i \in 1..Len(s1) :
        \/ s1[i] = s2[i]
        \/ /\ ToLower(s1[i]) = ToLower(s2[i])
           /\ ToLower(s1[i]) \in LowerLetters

\* time.shortDayNames
shortDayNames ==
    << <<"S", "u", "n">>, <<"M", "o", "n">>, <<"T", "u", "e">>, <<"W", "e", "d">>,
       <<"T", "h", "u">>, <<"F", "r", "i">>, <<"S", "a", "t">> >>

\* time.shortMonthNames
shortMonthNames ==
    << <<"J", "a", "n">>, <<"F", "e", "b">>, <<"M", "a", "r">>, <<"A", "p", "r">>,
       <<"M", "a", "y">>, <<"J", "u", "n">>, <<"J", "u", "l">>, <<"A", "u", "g">>,
       <<"S", "e", "p">>, <<"O", "c", "t">>, <<"N", "o", "v">>, <<"D", "e", "c">> >>

\* time.lookup(tab, val): the 1-based index of the first name val starts with
lookup(tab, val) ==
    LET hit(i) == Len(val) >= Len(tab[i]) /\ match(SubSeq(val, 1, Len(tab[i])), tab[i])
    IN  IF \E i \in 1..Len(tab) : hit(i)
        THEN [ok |-> TRUE,
              val |-> CHOOSE i \in 1..Len(tab) : hit(i) /\ \A j \in 1..(i - 1) : ~hit(j),
              rest |-> Tail_(val, 4)]
        ELSE [ok |-> FALSE, val |-> 0, rest |-> val]

\* time.isDigit(s, i) with a 1-based i
isDigit(s, i) == Len(s) >= i /\ s[i] \in numbers

\* time.cutspace(s)
RECURSIVE cutspace(_)
cutspace(s) == IF Len(s) > 0 /\ s[1] = " " THEN cutspace(Tail(s)) ELSE s

\* time.skip(value, " "): a space of the layout matches a run of spaces
skipSpace(value) ==
    IF Len(value) > 0 /\ value[1] # " "
    THEN [ok |-> FALSE, rest |-> value]
    ELSE [ok |-> TRUE, rest |-> cutspace(value)]

\* time.skip(value, c) for a layout character c that is no space
skipChar(value, c) ==
    IF Len(value) = 0 \/ value[1] # c
    THEN [ok |-> FALSE, rest |-> value]
    ELSE [ok |-> TRUE, rest |-> Tail(value)]

\* time.getnum(s, fixed)
getnum(s, fixed) ==
    IF ~isDigit(s, 1) THEN [ok |-> FALSE, val |-> 0, rest |-> s]
    ELSE IF ~isDigit(s, 2)
    THEN IF fixed THEN [ok |-> FALSE, val |-> 0, rest |-> s]
         ELSE [ok |-> TRUE, val |-> DigitVal(s[1]), rest |-> Tail(s)]
    ELSE [ok |-> TRUE, val |-> DigitVal(s[1]) * 10 + DigitVal(s[2]), rest |-> Tail_(s, 3)]

\* Number of leading characters of s that lie in set
RECURSIVE RunLength(_, _)
RunLength(s, set) ==
    IF Len(s) > 0 /\ s[1] \in set THEN 1 + RunLength(Tail(s), set) ELSE 0

\* The fractional second time.Parse accepts after the seconds although the
\* layout has none: "." and digits.  More than nine significant digits are
\* a value out of range.
fracSecond(value) ==
    IF Len(value) >= 2 /\ value[1] = "." /\ isDigit(value, 2)
    THEN LET n == RunLength(Tail(value), numbers)
             digits == SubSeq(value, 2, n + 1)
             zeros == RunLength(digits, {"0"})
         IN  [ok |-> n - zeros <= 9 /\ n <= 9, frac |-> digits, rest |-> Tail_(value, n + 2)]
    ELSE [ok |-> TRUE, frac |-> <<>>, rest |-> value]

\* Value of a run of digits, capped at 100
RECURSIVE SmallInt(_, _)
SmallInt(s, n) ==
    IF Len(s) = 0 THEN n
    ELSE SmallInt(Tail(s), IF n * 10 + DigitVal(s[1]) > 100 THEN 100
                           ELSE n * 10 + DigitVal(s[1]))

\* time.parseGMT(value): length of "GMT" with its optional hour offset
parseGMT(value) ==
    LET v == Tail_(value, 4)
        k == RunLength(Tail(v), numbers)
        x == SmallInt(SubSeq(v, 2, k + 1), 0)
    IN  IF Len(v) = 0 THEN 3
        ELSE IF v[1] \notin {"+", "-"} THEN 3
        ELSE IF k = 0 THEN 3
        ELSE IF x = 0 \/ (v[1] = "-" /\ x > 14) \/ (v[1] = "+" /\ x > 12) THEN 3
        ELSE 3 + 1 + k

\* time.parseTimeZone(value): [ok, length]
parseTimeZone(value) ==
    LET nUpperAll == RunLength(value, UpperLetters)
        nUpper == IF nUpperAll > 6 THEN 6 ELSE nUpperAll
    IN  IF Len(value) < 3 THEN [ok |-> FALSE, length |-> 0]
        ELSE IF Len(value) >= 4 /\ SubSeq(value, 1, 4) \in
                    {<<"C", "h", "S", "T">>, <<"M", "e", "S", "T">>}
        THEN [ok |-> TRUE, length |-> 4]
        ELSE IF SubSeq(value, 1, 3) = <<"G", "M", "T">>
        THEN [ok |-> TRUE, length |-> parseGMT(value)]
        ELSE IF nUpper = 5 /\ value[5] = "T" THEN [ok |-> TRUE, length |-> 5]
        ELSE IF nUpper = 4 /\ (value[4] = "T" \/ SubSeq(value, 1, 4) = <<"W", "I", "T", "A">>)
        THEN [ok |-> TRUE, length |-> 4]
        ELSE IF nUpper = 3 THEN [ok |-> TRUE, length |-> 3]
        ELSE [ok |-> FALSE, length |-> 0]

\* The stdTZ chunk of time.Parse
parseTZ(value) ==
    IF Len(value) >= 3 /\ SubSeq(value, 1, 3) = <<"U", "T", "C">>
    THEN [ok |-> TRUE, zone |-> <<"U", "T", "C">>, rest |-> Tail_(value, 4)]
    ELSE LET z == parseTimeZone(value)
         IN  IF ~z.ok THEN [ok |-> FALSE, zone |-> <<>>, rest |-> value]
             ELSE [ok |-> TRUE, zone |-> SubSeq(value, 1, z.length),
                   rest |-> Tail_(value, z.length + 1)]

\* The stdLongYear chunk of time.Parse: four digits
parseLongYear(value) ==
    IF Len(value) < 4 \/ ~isDigit(value, 1)
    THEN [ok |-> FALSE, val |-> 0, rest |-> value]
    ELSE IF ~containsOnly(SubSeq(value, 1, 4), numbers)
    THEN [ok |-> FALSE, val |-> 0, rest |-> Tail_(value, 5)]
    ELSE [ok |-> TRUE,
          val |-> DigitVal(value[1]) * 1000 + DigitVal(value[2]) * 100
                    + DigitVal(value[3]) * 10 + DigitVal(value[4]),
          rest |-> Tail_(value, 5)]

\* time.isLeap(year)
isLeap(year) == year % 4 = 0 /\ (year % 100 # 0 \/ year % 400 = 0)

\* time.daysIn(m, year)
daysIn(m, year) ==
    IF m = 2 /\ isLeap(year) THEN 29
    ELSE <<31, 28, 31, 30, 31, 30, 31, 31, 30, 31, 30, 31>>[m]

\* The zero time.Time
ZeroTime ==
    [year |-> 1, month |-> 1, day |-> 1, hour |-> 0, min |-> 0, sec |-> 0,
     frac |-> <<>>, zone |-> <<"U", "T", "C">>, offset |-> 0]

TimeFail(e) == [err |-> e, t |-> ZeroTime]

\* time.UnixDate, "Mon Jan _2 15:04:05 MST 2006", cut into the chunks
\* nextStdChunk finds: the std elements and the literal text between them
UnixDate ==
    <<"Mon", " ", "Jan", " ", "_2", " ", "15", ":", "04", ":", "05", " ", "MST",
      " ", "2006">>

\* The locals of time.Parse: the rest of the value, the error, the fields read
ParseStart(value) ==
    [value |-> value, err |-> NoErr, month |-> 1, day |-> 1, hour |-> 0,
     min |-> 0, sec |-> 0, frac |-> <<>>, zone |-> <<"U", "T", "C">>, year |-> 1]

ParseStop(st, msg) == [st EXCEPT !.err = TimeErr(msg)]

\* One turn of the loop of time.Parse: the chunk c of the layout against the
\* front of st.value
parseChunk(st, c) ==
    CASE c = " " ->
           LET r == skipSpace(st.value)
           IN  IF r.ok THEN [st EXCEPT !.value = r.rest]
               ELSE ParseStop(st, "cannot parse layout text")
      [] c = ":" ->
           LET r == skipChar(st.value, ":")
           IN  IF r.ok THEN [st EXCEPT !.value = r.rest]
               ELSE ParseStop(st, "cannot parse layout text")
      [] c = "Mon" ->
           \* stdWeekDay: read, and not compared with the date
           LET r == lookup(shortDayNames, st.value)
           IN  IF r.ok THEN [st EXCEPT !.value = r.rest]
               ELSE ParseStop(st, "cannot parse weekday")
      [] c = "Jan" ->
           LET r == lookup(shortMonthNames, st.value)
           IN  IF r.ok THEN [st EXCEPT !.value = r.rest, !.month = r.val]
               ELSE ParseStop(st, "cannot parse month")
      [] c = "_2" ->
           \* stdUnderDay: one more leading space is allowed; any one- or
           \* two-digit day passes here
           LET r == getnum(IF Len(st.value) > 0 /\ st.value[1] = " "
                           THEN Tail(st.value) ELSE st.value, FALSE)
           IN  IF r.ok THEN [st EXCEPT !.value = r.rest, !.day = r.val]
               ELSE ParseStop(st, "cannot parse day")
      [] c = "15" ->
           LET r == getnum(st.value, FALSE)
           IN  IF ~r.ok THEN ParseStop(st, "cannot parse hour")
               ELSE IF r.val >= 24 THEN ParseStop(st, "hour out of range")
               ELSE [st EXCEPT !.value = r.rest, !.hour = r.val]
      [] c = "04" ->
           LET r == getnum(st.value, TRUE)
           IN  IF ~r.ok THEN ParseStop(st, "cannot parse minute")
               ELSE IF r.val >= 60 THEN ParseStop(st, "minute out of range")
               ELSE [st EXCEPT !.value = r.rest, !.min = r.val]
      [] c = "05" ->
           LET r == getnum(st.value, TRUE)
               f == fracSecond(r.rest)
           IN  IF ~r.ok THEN ParseStop(st, "cannot parse second")
               ELSE IF r.val >= 60 THEN ParseStop(st, "second out of range")
               ELSE IF ~f.ok THEN ParseStop(st, "fractional second out of range")
               ELSE [st EXCEPT !.value = f.rest, !.sec = r.val, !.frac = f.frac]
      [] c = "MST" ->
           LET r == parseTZ(st.value)
           IN  IF r.ok THEN [st EXCEPT !.value = r.rest, !.zone = r.zone]
               ELSE ParseStop(st, "cannot parse zone")
      [] c = "2006" ->
           LET r == parseLongYear(st.value)
           IN  IF r.ok THEN [st EXCEPT !.value = r.rest, !.year = r.val]
               ELSE ParseStop(st, "cannot parse year")

\* The loop of time.Parse from chunk k of the layout on; it ends at the first
\* error.  (The locals are bound as values, s and j, before the next turn.)
RECURSIVE parseLayout(_, _)
parseLayout(st, k) ==
    CHOOSE r \in {IF j > Len(UnixDate) \/ s.err # NoErr THEN s
                  ELSE parseLayout(parseChunk(s, UnixDate[j]), j + 1) :
                    s \in {st}, j \in {k}} : TRUE

\* time.Parse after the loop: no text may be left, and the day must exist in
\* the month
parseEnd(st) ==
    IF st.err # NoErr THEN TimeFail(st.err)
    ELSE IF Len(st.value) > 0 THEN TimeFail(TimeErr("extra text"))
    ELSE IF st.day < 1 \/ st.day > daysIn(st.month, st.year)
         THEN TimeFail(TimeErr("day out of range"))
    ELSE [err |-> NoErr,
          t |-> [year |-> st.year, month |-> st.month, day |-> st.day,
                 hour |-> st.hour, min |-> st.min, sec |-> st.sec,
                 frac |-> st.frac, zone |-> st.zone, offset |-> 0]]

\* time.Parse(time.UnixDate, value): [err, t]
TimeParse(value) ==
    CHOOSE r \in {parseEnd(st) : st \in {parseLayout(ParseStart(value), 1)}} : TRUE

\* The zone offset (hours east of UTC) time.Parse gives a zone abbreviation:
\* the offset of the process's local zone when the abbreviation is its name,
\* the offset written after GMT, and otherwise 0.
zoneOffset(zone, local) ==
    IF zone = local.name THEN local.offset
    ELSE IF Len(zone) > 3 /\ SubSeq(zone, 1, 3) = <<"G", "M", "T">>
    THEN (IF zone[4] = "-" THEN -1 ELSE 1) * SmallInt(Tail_(zone, 5), 0)
    ELSE 0

\* time.Parse in a process whose local zone is local: the zone abbreviation
\* read is resolved to an offset
TimeParseIn(value, local) ==
    LET r == TimeParse(value)
    IN  IF r.err = NoErr
        THEN [r EXCEPT !.t.offset = zoneOffset(r.t.zone, local)]
        ELSE r

\* n in decimal, zero-padded to width digits (time.appendInt)
RECURSIVE appendInt(_, _)
appendInt(n, width) ==
    IF width <= 1 /\ n < 10 THEN <<DigitChar(n)>>
    ELSE appendInt(n \div 10, width - 1) \o <<DigitChar(n % 10)>>

\* time.Time.Format(time.RFC3339), layout "2006-01-02T15:04:05Z07:00"
FormatRFC3339(t) ==
    LET offset == t.offset IN
    appendInt(t.year, 4) \o <<"-">> \o appendInt(t.month, 2) \o <<"-">>
      \o appendInt(t.day, 2) \o <<"T">> \o appendInt(t.hour, 2) \o <<":">>
      \o appendInt(t.min, 2) \o <<":">> \o appendInt(t.sec, 2)
      \o (IF offset = 0 THEN <<"Z">>
          ELSE <<IF offset < 0 THEN "-" ELSE "+">>
                 \o appendInt(IF offset < 0 THEN -offset ELSE offset, 2)
                 \o <<":", "0", "0">>)

---------------------------------------------------------------------------
(* Slices of strings over a heap of arrays                                 *)

\* The nil slice
NilSlice == [ptr |-> 0, len |-> 0, cap |-> 0]

\* The elements a slice header shows
Elems(h, s) == [i \in 1..s.len |-> h[s.ptr][i]]

\* runtime.growslice: the capacity of the array append allocates
growslice(oldcap, needed) == IF needed > 2 * oldcap THEN needed ELSE 2 * oldcap

\* append(s, x): writes into spare capacity, or copies into a new array
append(h, s, x) ==
    IF s.len < s.cap
    THEN [heap |-> [h EXCEPT ![s.ptr][s.len + 1] = x],
          slice |-> [s EXCEPT !.len = s.len + 1]]
    ELSE LET newcap == growslice(s.cap, s.len + 1)
             arr == [i \in 1..newcap |->
                        IF i <= s.len THEN h[s.ptr][i]
                        ELSE IF i = s.len + 1 THEN x ELSE <<>>]
         IN  [heap |-> Append(h, arr),
              slice |-> [ptr |-> Len(h) + 1, len |-> s.len + 1, cap |-> newcap]]

---------------------------------------------------------------------------
(* package govee                                                           *)

\* Version{}
ZeroVersion ==
    [semver |-> ZeroSemver, githash |-> <<>>, gitbranch |-> <<>>, gituser |-> <<>>,
     os |-> <<>>, arch |-> <<>>, compiler |-> <<>>, release |-> <<>>,
     timestamp |-> ZeroTime, warnings |-> NilSlice, err |-> NoErr]

\* The field copies with the git user stored as the branch
CopyFields_Cross(c) ==
    [ZeroVersion EXCEPT !.githash = c.GitHash, !.gitbranch = c.GitUser,
                        !.gituser = c.GitUser, !.os = c.OS, !.arch = c.Arch,
                        !.compiler = c.Compiler, !.release = c.Release]

\* NewVersion, the seven field copies
CopyFields(c) ==
    [ZeroVersion EXCEPT !.githash = c.GitHash, !.gitbranch = c.GitBranch,
                        !.gituser = c.GitUser, !.os = c.OS, !.arch = c.Arch,
                        !.compiler = c.Compiler, !.release = c.Release]

\* A rendering with commas between the elements
SprintPre_Comma(pre) ==
    <<"[">> \o Join([i \in 1..Len(pre) |-> PRString(pre[i])], <<",">>) \o <<"]">>

\* fmt.Sprintf("%+v", pre) of a []semver.PRVersion: the elements' String()
\* in brackets, one space between two elements
SprintPre(pre) ==
    <<"[">> \o Join([i \in 1..Len(pre) |-> PRString(pre[i])], <<" ">>) \o <<"]">>

PreWarningHead ==
    <<"T", "h", "i", "s", " ", "v", "e", "r", "s", "i", "o", "n", " ", "i", "s", " ",
      "t", "a", "g", "g", "e", "d", " ", "a", "s", " ", "a", " ", "p", "r", "e", "-",
      "r", "e", "l", "e", "a", "s", "e", " ", "\"">>
ReleaseWarningHead ==
    <<"T", "h", "i", "s", " ", "v", "e", "r", "s", "i", "o", "n", " ", "i", "s", " ",
      "t", "a", "g", "g", "e", "d", " ", "a", "s", " ", "r", "e", "l", "e", "a", "s",
      "e", " ", "\"">>
WarningTail ==
    <<"\"", ".", " ", "P", "l", "e", "a", "s", "e", " ", "d", "o", "n", "'", "t", " ",
      "u", "s", "e", " ", "i", "n", " ", "p", "r", "o", "d", "u", "c", "t", "i", "o",
      "n", ".">>

\* NewVersion, the pre-release warning's text
PreWarning(pre) == PreWarningHead \o SprintPre(pre) \o WarningTail

\* NewVersion, the release warning's text
ReleaseWarning(release) == ReleaseWarningHead \o release \o WarningTail

production == <<"p", "r", "o", "d", "u", "c", "t", "i", "o", "n">>
prod == <<"p", "r", "o", "d">>

\* The condition with "or" for "and"
NotProduction_Or(release) == release # production \/ release # prod

\* NewVersion, the condition of the release warning
NotProduction(release) == release # production /\ release # prod

\* A failed construction that returns the record as far as it was filled
FailValue_Partial(v) == v

\* A failed construction that records the failure in the record it returns
FailValue_ErrSet(v) == [ZeroVersion EXCEPT !.err = SemverErr("construction failed")]

\* NewVersion, what a failed construction returns beside the error
FailValue(v) == ZeroVersion

\* The two warning checks in the other order
AddWarnings_ReleaseFirst(h, v) ==
    LET a1 == IF NotProduction(v.release)
              THEN append(h, v.warnings, ReleaseWarning(v.release))
              ELSE [heap |-> h, slice |-> v.warnings]
        a2 == IF Len(v.semver.Pre) > 0
              THEN append(a1.heap, a1.slice, PreWarning(v.semver.Pre))
              ELSE a1
    IN  [heap |-> a2.heap, v |-> [v EXCEPT !.warnings = a2.slice]]

\* NewVersion, the two warning checks in order: appends to v.warnings
AddWarnings(h, v) ==
    LET a1 == IF Len(v.semver.Pre) > 0
              THEN append(h, v.warnings, PreWarning(v.semver.Pre))
              ELSE [heap |-> h, slice |-> v.warnings]
        a2 == IF NotProduction(v.release)
              THEN append(a1.heap, a1.slice, ReleaseWarning(v.release))
              ELSE a1
    IN  [heap |-> a2.heap, v |-> [v EXCEPT !.warnings = a2.slice]]

\* NewVersion with the timestamp parsed before the version string
NewVersion_TimeFirst(c, h, local) ==
    LET v0 == CopyFields(c)
        ts == TimeParseIn(c.TStamp, local)
        v1 == [v0 EXCEPT !.timestamp = ts.t]
        sv == Make(c.VersionString)
        v2 == [v1 EXCEPT !.semver = sv.v]
        w == AddWarnings(h, v2)
    IN  IF ts.err # NoErr THEN [v |-> FailValue(v1), err |-> ts.err, heap |-> h]
        ELSE IF sv.err # NoErr THEN [v |-> FailValue(v2), err |-> sv.err, heap |-> h]
        ELSE [v |-> w.v, err |-> NoErr, heap |-> w.heap]

\* NewVersion(c) on heap h in a process whose local zone is local:
\* [v, err, heap]
NewVersion(c, h, local) ==
    LET v0 == CopyFields(c)
        sv == Make(c.VersionString)
        v1 == [v0 EXCEPT !.semver = sv.v]
        ts == TimeParseIn(c.TStamp, local)
        v2 == [v1 EXCEPT !.timestamp = ts.t]
        w == AddWarnings(h, v2)
    IN  IF sv.err # NoErr THEN [v |-> FailValue(v1), err |-> sv.err, heap |-> h]
        ELSE IF ts.err # NoErr THEN [v |-> FailValue(v2), err |-> ts.err, heap |-> h]
        ELSE [v |-> w.v, err |-> NoErr, heap |-> w.heap]

\* The accessors
String(v) == SemverString(v.semver)
\* A Semver() that leaves the build metadata out
Semver_NoBuild(v) == SemverString([v.semver EXCEPT !.Build = <<>>])
Semver(v) == SemverString(v.semver)
Major(v) == IntOfUint(v.semver.Major)
Minor(v) == IntOfUint(v.semver.Minor)
Patch(v) == IntOfUint(v.semver.Patch)
\* Pre indexes v.semver.Pre[0]: a run-time panic when there is none
PrePanics(v) == Len(v.semver.Pre) = 0
\* A Pre() that renders the whole pre-release sequence
Pre_Whole(v) == Join([i \in 1..Len(v.semver.Pre) |-> PRString(v.semver.Pre[i])], <<".">>)
Pre(v) == PRString(v.semver.Pre[1])
Warnings(v) == v.warnings
Err(v) == v.err
GitHash(v) == v.githash
GitBranch(v) == v.gitbranch
GitUser(v) == v.gituser
OS(v) == v.os
Arch(v) == v.arch
Release(v) == v.release
TStamp(v) == FormatRFC3339(v.timestamp)
Compiler(v) == v.compiler

---------------------------------------------------------------------------
(* Inputs                                                                  *)

\* Largest number of writes and appends a caller makes through the slice
\* Warnings() returned.
MaxCallerSteps == 1

V123 == <<"1", ".", "2", ".", "3">>
VPre == <<"1", ".", "2", ".", "3", "-", "2", "-", "g", "a", "1", "b", "2", "c", "3", "d">>
VTwoPre == <<"1", ".", "2", ".", "3", "-", "a", "l", "p", "h", "a", ".", "1", "+", "b", "7">>
VNot == <<"n", "o", "t", "-", "a", "-", "v", "e", "r", "s", "i", "o", "n">>

\* The version strings of the tests and of the README, and a malformed one
ExampleVersions == {V123, VPre, VTwoPre, VNot, <<>>}

\* Numeric components: plain, with a leading zero, empty, not a number, and
\* the values around the top of int and of uint64
NumToks ==
    {<<"0">>, <<"1">>, <<"0", "1">>, <<>>, <<"x">>, FormatUint(MaxInt),
     FormatUint(MaxInt + 1), FormatUint(MaxUint), FormatUint(MaxUint + 1)}

NumVersions ==
    {n \o <<".", "2", ".", "3">> : n \in NumToks}
      \cup {<<"1", ".">> \o n \o <<".", "3">> : n \in NumToks}
      \cup {<<"1", ".", "2", ".">> \o n : n \in NumToks}

\* Pre-release identifiers: alphanumeric, numeric, with a leading zero, empty
IdToks == {<<"r", "c">>, <<"7">>, <<"0", "1">>, <<>>}
\* Build identifiers: alphanumeric, empty
BuildToks == {<<"b", "1">>, <<>>}

SeqsUpTo(S, n) == UNION {[1..k -> S] : k \in 0..n}

PreVersions ==
    {V123 \o (IF Len(pre) = 0 THEN <<>> ELSE <<"-">> \o Join(pre, <<".">>))
          \o (IF Len(build) = 0 THEN <<>> ELSE <<"+">> \o Join(build, <<".">>)) :
        pre \in SeqsUpTo(IdToks, MaxPre), build \in SeqsUpTo(BuildToks, MaxBuild)}

Versions == ExampleVersions \cup NumVersions \cup PreVersions

RelTest == <<"t", "e", "s", "t">>
Releases ==
    {prod, production, RelTest, <<>>, <<"P", "r", "o", "d">>, <<" ", "p", "r", "o", "d">>,
     <<"P", "R", "O", "D", "U", "C", "T", "I", "O", "N">>}

TSTest ==
    <<"T", "h", "u", " ", "F", "e", "b", " ", "1", "4", " ", "1", "5", ":", "0", "4",
      ":", "0", "5", " ", "S", "A", "S", "T", " ", "2", "0", "1", "9">>
TSPadded ==
    <<"T", "h", "u", " ", "F", "e", "b", " ", " ", "4", " ", "1", "5", ":", "0", "4",
      ":", "0", "5", " ", "U", "T", "C", " ", "2", "0", "1", "9">>
TSRfc ==
    <<"2", "0", "1", "9", "-", "0", "2", "-", "1", "4", "T", "1", "5", ":", "0", "4",
      ":", "0", "5", "Z">>
TSFeb30 ==
    <<"T", "h", "u", " ", "F", "e", "b", " ", "3", "0", " ", "1", "5", ":", "0", "4",
      ":", "0", "5", " ", "S", "A", "S", "T", " ", "2", "0", "1", "9">>

\* Timestamps in the format of date(1), and timestamps that are not
GoodTimestamps == {TSTest, TSPadded}
BadTimestamps == {<<>>, TSRfc, TSFeb30}
Timestamps == GoodTimestamps \cup BadTimestamps

\* The opaque fields of the tests' configs, and all of them empty
TestFields ==
    [GitHash |-> <<"1", "2", "3", "4", "5", "6", "7", "8", "9", "0", "a", "b", "c", "d", "e", "f">>,
     GitBranch |-> <<"t", "e", "s", "t", "i", "n", "g">>,
     GitUser |-> <<"J", "a", "n", "e", " ", "D", "o", "e">>,
     OS |-> <<"l", "i", "n", "u", "x">>,
     Arch |-> <<"a", "m", "d", "6", "4">>,
     Compiler |-> <<"g", "o", "1", ".", "1", "1", ".", "1">>]
EmptyFields ==
    [GitHash |-> <<>>, GitBranch |-> <<>>, GitUser |-> <<>>, OS |-> <<>>,
     Arch |-> <<>>, Compiler |-> <<>>]

\* type VersionConfig
Config(f, version, release, tstamp) ==
    [VersionString |-> version, GitHash |-> f.GitHash, GitBranch |-> f.GitBranch,
     GitUser |-> f.GitUser, OS |-> f.OS, Arch |-> f.Arch, Compiler |-> f.Compiler,
     Release |-> release, TStamp |-> tstamp]

ZoneSAST == [name |-> <<"S", "A", "S", "T">>, offset |-> 2]
ZoneUTC == [name |-> <<"U", "T", "C">>, offset |-> 0]
LocalZones == {ZoneSAST, ZoneUTC}

\* What a caller writes into a slice
Junk == <<"x">>

---------------------------------------------------------------------------
(* The program: a caller builds one Version from a config, keeps what      *)
(* NewVersion returned, and calls the accessors in any order.              *)

VARIABLES
    cfg,     \* the VersionConfig handed to NewVersion
    local,   \* the local time zone of the process
    pc,      \* "start", "built" (err == nil), "failed" (err != nil), "panic"
    v,       \* the Version the caller holds
    err,     \* the error NewVersion returned
    heap,    \* the arrays behind the slices
    w,       \* the slice the caller got from Warnings(), once it has one
    last,    \* the last accessor called and what it returned
    steps    \* writes and appends the caller has made through w

vars == <<cfg, local, pc, v, err, heap, w, last, steps>>

NoCall == [op |-> "", val |-> <<>>]
NotHeld == [held |-> FALSE, s |-> NilSlice]

Init ==
    /\ \/ /\ cfg \in {Config(TestFields, ver, rel, ts) :
                        ver \in Versions, rel \in {prod, RelTest}, ts \in {TSTest}}
          /\ local = ZoneSAST
       \/ /\ cfg \in {Config(TestFields, ver, rel, ts) :
                        ver \in ExampleVersions, rel \in Releases, ts \in Timestamps}
          /\ local = ZoneSAST
       \/ /\ cfg \in {Config(f, ver, rel, ts) :
                        f \in {TestFields, EmptyFields}, ver \in {V123, VNot},
                        rel \in {RelTest, <<>>}, ts \in {TSTest, <<>>}}
          /\ local \in LocalZones
    /\ pc = "start"
    /\ v = ZeroVersion
    /\ err = NoErr
    /\ heap = <<>>
    /\ w = NotHeld
    /\ last = NoCall
    /\ steps = 0

\* a.version, err = govee.NewVersion(&vconf)
CallNewVersion ==
    /\ pc = "start"
    /\ \E r \in {NewVersion(cfg, heap, local)} :
           /\ v' = r.v
           /\ err' = r.err
           /\ heap' = r.heap
           /\ pc' = IF r.err = NoErr THEN "built" ELSE "failed"
    /\ UNCHANGED <<cfg, local, w, last, steps>>

Holding == pc \in {"built", "failed"}

\* A call of an accessor that only reads
Read(op, val) ==
    /\ Holding
    /\ last' = [op |-> op, val |-> val]
    /\ UNCHANGED <<cfg, local, pc, v, err, heap, w, steps>>

CallString == Read("String", String(v))
CallSemver == Read("Semver", Semver(v))
CallMajor == Read("Major", Major(v))
CallMinor == Read("Minor", Minor(v))
CallPatch == Read("Patch", Patch(v))
CallErr == Read("Err", Err(v))
CallGitHash == Read("GitHash", GitHash(v))
CallGitBranch == Read("GitBranch", GitBranch(v))
CallGitUser == Read("GitUser", GitUser(v))
CallOS == Read("OS", OS(v))
CallArch == Read("Arch", Arch(v))
CallRelease == Read("Release", Release(v))
CallTStamp == Read("TStamp", TStamp(v))
CallCompiler == Read("Compiler", Compiler(v))

\* v.Pre(): panics (index out of range) when v.semver.Pre is empty
CallPre ==
    /\ Holding
    /\ IF PrePanics(v)
       THEN /\ pc' = "panic"
            /\ last' = [op |-> "Pre", val |-> "panic: index out of range"]
       ELSE /\ pc' = pc
            /\ last' = [op |-> "Pre", val |-> Pre(v)]
    /\ UNCHANGED <<cfg, local, v, err, heap, w, steps>>

\* ws := v.Warnings(): the caller gets the record's own slice header
CallWarnings ==
    /\ Holding
    /\ last' = [op |-> "Warnings", val |-> Elems(heap, Warnings(v))]
    /\ w' = [held |-> TRUE, s |-> Warnings(v)]
    /\ UNCHANGED <<cfg, local, pc, v, err, heap, steps>>

\* ws[i] = "x" by the caller
CallerWrite ==
    /\ Holding /\ w.held /\ steps < MaxCallerSteps
    /\ \E i \in 1..w.s.len : heap' = [heap EXCEPT ![w.s.ptr][i] = Junk]
    /\ steps' = steps + 1
    /\ UNCHANGED <<cfg, local, pc, v, err, w, last>>

\* ws = append(ws, "x") by the caller
CallerAppend ==
    /\ Holding /\ w.held /\ steps < MaxCallerSteps
    /\ LET a == append(heap, w.s, Junk)
       IN  /\ heap' = a.heap
           /\ w' = [w EXCEPT !.s = a.slice]
    /\ steps' = steps + 1
    /\ UNCHANGED <<cfg, local, pc, v, err, last>>

Next ==
    \/ CallNewVersion
    \/ CallString \/ CallSemver \/ CallMajor \/ CallMinor \/ CallPatch
    \/ CallPre \/ CallWarnings \/ CallErr
    \/ CallGitHash \/ CallGitBranch \/ CallGitUser \/ CallOS \/ CallArch
    \/ CallRelease \/ CallTStamp \/ CallCompiler
    \/ CallerWrite \/ CallerAppend

Spec == Init /\ [][Next]_vars

---------------------------------------------------------------------------
(* Vocabulary of the properties, written from the semantic-versioning      *)
(* grammar and from the texts the tests expect, not from the parser        *)

\* The number a string of digits denotes
RECURSIVE Value(_)
Value(s) == IF Len(s) = 0 THEN 0 ELSE Value(SubSeq(s, 1, Len(s) - 1)) * 10 + DigitVal(s[Len(s)])

\* <numeric identifier>: digits without a leading zero, within uint64
IsNumericId(s) ==
    /\ Len(s) > 0
    /\ \A i \in 1..Len(s) : s[i] \in numbers
    /\ (Len(s) > 1 => s[1] # "0")
    /\ Len(s) <= Len(FormatUint(MaxUint)) /\ Value(s) <= MaxUint

\* <pre-release identifier>
IsPreId(s) ==
    /\ Len(s) > 0
    /\ \A i \in 1..Len(s) : s[i] \in alphanum
    /\ ((\A i \in 1..Len(s) : s[i] \in numbers) => IsNumericId(s))

\* <build identifier>
IsBuildId(s) == Len(s) > 0 /\ \A i \in 1..Len(s) : s[i] \in alphanum

\* The version string without its build metadata ("+" and what follows)
BeforeBuild(s) ==
    IF IndexRune(s, "+") = 0 THEN s ELSE SubSeq(s, 1, IndexRune(s, "+") - 1)

\* The build metadata of a version string: what follows the first "+"
BuildSection(s) == Tail_(s, IndexRune(s, "+") + 1)

HasBuild(s) == IndexRune(s, "+") # 0

\* A version string has a pre-release part when a "-" precedes any "+"
HasPreRelease(s) == IndexRune(BeforeBuild(s), "-") # 0

\* The pre-release part: between the first "-" and the build metadata
PreSection(s) == Tail_(BeforeBuild(s), IndexRune(BeforeBuild(s), "-") + 1)

\* major.minor.patch: what precedes the pre-release part and the build metadata
CoreSection(s) ==
    IF HasPreRelease(s)
    THEN SubSeq(s, 1, IndexRune(BeforeBuild(s), "-") - 1)
    ELSE BeforeBuild(s)

\* <valid semver> of semver.org 2.0.0, its numbers within uint64
WellFormedVersion(s) ==
    LET core == Split(CoreSection(s), ".")
        pre == Split(PreSection(s), ".")
        build == Split(BuildSection(s), ".")
    IN  /\ Len(core) = 3
        /\ \A i \in 1..3 : IsNumericId(core[i])
        /\ HasPreRelease(s) => \A i \in 1..Len(pre) : IsPreId(pre[i])
        /\ HasBuild(s) => \A i \in 1..Len(build) : IsBuildId(build[i])

\* The kind of a construction error
ErrKind(e) ==
    IF e = NoErr THEN "none"
    ELSE IF e.pkg = "time" THEN "InvalidTimestamp"
    ELSE "InvalidSemver"

\* NewVersion has returned
Returned == pc # "start"

\* NewVersion has returned a record and no error
Succeeded == Returned /\ err = NoErr

\* The caller has not written through the slice Warnings() returned
Untouched == steps = 0

\* The warning sequence of the record the caller holds
WarningSeq == Elems(heap, v.warnings)

HasPrefix(s, p) == Len(s) >= Len(p) /\ SubSeq(s, 1, Len(p)) = p

\* s with every character a replaced by b
Replace(s, a, b) == [i \in 1..Len(s) |-> IF s[i] = a THEN b ELSE s[i]]

TextPreHead ==
    <<"T", "h", "i", "s", " ", "v", "e", "r", "s", "i", "o", "n", " ", "i", "s", " ",
      "t", "a", "g", "g", "e", "d", " ", "a", "s", " ", "a", " ", "p", "r", "e", "-",
      "r", "e", "l", "e", "a", "s", "e", " ", "\"">>
TextReleaseHead ==
    <<"T", "h", "i", "s", " ", "v", "e", "r", "s", "i", "o", "n", " ", "i", "s", " ",
      "t", "a", "g", "g", "e", "d", " ", "a", "s", " ", "r", "e", "l", "e", "a", "s",
      "e", " ", "\"">>
TextTail ==
    <<"\"", ".", " ", "P", "l", "e", "a", "s", "e", " ", "d", "o", "n", "'", "t", " ",
      "u", "s", "e", " ", "i", "n", " ", "p", "r", "o", "d", "u", "c", "t", "i", "o",
      "n", ".">>

IsPreWarning(t) == HasPrefix(t, TextPreHead)
IsReleaseWarning(t) == HasPrefix(t, TextReleaseHead)

---------------------------------------------------------------------------
(* Properties                                                              *)

\* C1: whenever the version string or the timestamp fails to parse,
\* NewVersion returns an error, and the record returned beside it is the
\* zero record: none of the config's seven opaque fields, no parsed version,
\* no parsed timestamp, no warnings.
C1_FailureReturnsZeroRecord ==
    (Returned /\ (~WellFormedVersion(cfg.VersionString) \/ cfg.TStamp \in BadTimestamps))
      => /\ err # NoErr
         /\ pc # "built"
         /\ GitHash(v) = <<>> /\ GitBranch(v) = <<>> /\ GitUser(v) = <<>>
         /\ OS(v) = <<>> /\ Arch(v) = <<>> /\ Compiler(v) = <<>> /\ Release(v) = <<>>
         /\ v.semver = ZeroSemver
         /\ v.timestamp = ZeroTime
         /\ v.warnings = NilSlice /\ WarningSeq = <<>>

\* C1 witness: a failed construction from a config whose opaque fields are not
\* empty and whose version string parses with pre-release identifiers (the
\* timestamp is what fails)
C1_Witness ==
    /\ pc = "failed"
    /\ cfg.GitHash # <<>> /\ cfg.Release # <<>>
    /\ cfg.VersionString = VPre
    /\ cfg.TStamp = TSFeb30

\* C2: NewVersion fails with InvalidSemver whenever the version string is
\* malformed, whatever the timestamp; fails with InvalidTimestamp exactly when
\* the version string is well formed and the timestamp malformed; succeeds
\* otherwise, whatever the release tag and the pre-release identifiers.
C2_OutcomeDecidedByTwoParses ==
    Returned =>
      LET wellFormed == WellFormedVersion(cfg.VersionString)
      IN  /\ ~wellFormed => ErrKind(err) = "InvalidSemver"
          /\ (wellFormed /\ cfg.TStamp \in BadTimestamps)
                => ErrKind(err) = "InvalidTimestamp"
          /\ (wellFormed /\ cfg.TStamp \in GoodTimestamps)
                => err = NoErr /\ pc # "failed"

\* C2 witness: both the version string and the timestamp are malformed, and
\* the failure is the version's
C2_Witness ==
    /\ pc = "failed"
    /\ cfg.VersionString = VNot
    /\ cfg.TStamp \in BadTimestamps
    /\ ErrKind(err) = "InvalidSemver"

\* C3 (as claimed): Pre() called on a record without pre-release identifiers
\* returns the empty string instead of failing.
C3_PreNeverFails ==
    (last.op = "Pre" /\ Len(v.semver.Pre) = 0) => (pc # "panic" /\ last.val = <<>>)

\* C4: after a successful construction the number of warnings is the number
\* of triggered checks, the pre-release warning precedes the release warning,
\* and no warning appears twice.
C4_WarningCountAndOrder ==
    (Succeeded /\ Untouched) =>
      LET ws == WarningSeq
          preTrig == HasPreRelease(cfg.VersionString)
          relTrig == cfg.Release \notin {prod, production}
      IN  /\ Len(ws) = (IF preTrig THEN 1 ELSE 0) + (IF relTrig THEN 1 ELSE 0)
          /\ preTrig => IsPreWarning(ws[1])
          /\ relTrig => IsReleaseWarning(ws[Len(ws)])
          /\ \A i, j \in 1..Len(ws) :
                /\ i # j => ws[i] # ws[j]
                /\ (IsPreWarning(ws[i]) /\ IsReleaseWarning(ws[j])) => i < j

\* C4 witness: a successful construction with both warnings
C4_Witness ==
    /\ pc = "built" /\ Untouched
    /\ Len(WarningSeq) = 2
    /\ HasPreRelease(cfg.VersionString)
    /\ cfg.Release = RelTest

\* C5 (as claimed): for a version string with pre-release identifiers the
\* first warning is the pre-release warning, whose text shows the identifiers
\* in brackets, separated by commas when there are several.
C5_PreWarningCommaSeparated ==
    (Succeeded /\ Untouched /\ HasPreRelease(cfg.VersionString)) =>
      /\ Len(WarningSeq) >= 1
      /\ WarningSeq[1] = TextPreHead \o <<"[">>
                           \o Replace(PreSection(cfg.VersionString), ".", ",")
                           \o <<"]">> \o TextTail

\* C5 (amended): for a version string with pre-release identifiers the first
\* warning is the pre-release warning, whose text shows the identifiers in
\* brackets, separated by one space when there are several.
C5_PreWarningSpaceSeparated ==
    (Succeeded /\ Untouched /\ HasPreRelease(cfg.VersionString)) =>
      /\ Len(WarningSeq) >= 1
      /\ WarningSeq[1] = TextPreHead \o <<"[">>
                           \o Replace(PreSection(cfg.VersionString), ".", " ")
                           \o <<"]">> \o TextTail

\* C5 witness: a record built from a version with two pre-release
\* identifiers, its first warning showing them
C5_Witness ==
    /\ Succeeded /\ Untouched
    /\ Len(v.semver.Pre) = 2
    /\ cfg.VersionString = VTwoPre
    /\ IsPreWarning(WarningSeq[1])

\* C6: after a successful construction the release warning, carrying the tag
\* verbatim, is present exactly when the release tag is neither "production"
\* nor "prod", compared as written (case and blanks count).
C6_ReleaseWarningIffNotProduction ==
    (Succeeded /\ Untouched) =>
      ((\E i \in 1..Len(WarningSeq) :
            WarningSeq[i] = TextReleaseHead \o cfg.Release \o TextTail)
        <=> cfg.Release \notin {<<"p", "r", "o", "d">>,
                                <<"p", "r", "o", "d", "u", "c", "t", "i", "o", "n">>})

\* C6 witness: a record built with the tag " prod", carrying the warning
C6_Witness ==
    /\ Succeeded /\ Untouched
    /\ cfg.Release = <<" ", "p", "r", "o", "d">>
    /\ \E i \in 1..Len(WarningSeq) : IsReleaseWarning(WarningSeq[i])

\* C7 (as claimed): for every valid "X.Y.Z" (with or without a pre-release
\* part) and a valid timestamp NewVersion succeeds, and Major(), Minor() and
\* Patch() are X, Y and Z, none negative, up to the top of the unsigned range.
C7_ComponentsEqualParsedNumbers ==
    LET parts == Split(CoreSection(cfg.VersionString), ".")
    IN  /\ (Returned /\ WellFormedVersion(cfg.VersionString)
              /\ cfg.TStamp \in GoodTimestamps) => Succeeded
        /\ Succeeded =>
              /\ Major(v) = Value(parts[1]) /\ Major(v) >= 0
              /\ Minor(v) = Value(parts[2]) /\ Minor(v) >= 0
              /\ Patch(v) = Value(parts[3]) /\ Patch(v) >= 0

\* C8: after a successful construction each of the seven opaque accessors
\* returns exactly the config's string for that field.
C8_OpaqueFieldsVerbatim ==
    Succeeded =>
      /\ GitHash(v) = cfg.GitHash
      /\ GitBranch(v) = cfg.GitBranch
      /\ GitUser(v) = cfg.GitUser
      /\ OS(v) = cfg.OS
      /\ Arch(v) = cfg.Arch
      /\ Compiler(v) = cfg.Compiler
      /\ Release(v) = cfg.Release

\* C8 witness: a record built from the tests' config, whose seven opaque
\* fields are pairwise different
C8_Witness ==
    /\ Succeeded
    /\ cfg.GitHash = TestFields.GitHash
    /\ cfg.Release = RelTest
    /\ Cardinality({cfg.GitHash, cfg.GitBranch, cfg.GitUser, cfg.OS, cfg.Arch,
                    cfg.Compiler, cfg.Release}) = 7

\* What the accessors of the record the caller holds return
Observed ==
    [Semver |-> Semver(v), String |-> String(v), Major |-> Major(v),
     Minor |-> Minor(v), Patch |-> Patch(v),
     Pre |-> IF PrePanics(v) THEN <<"panic">> ELSE Pre(v),
     Warnings |-> WarningSeq, Err |-> Err(v), GitHash |-> GitHash(v),
     GitBranch |-> GitBranch(v), GitUser |-> GitUser(v), OS |-> OS(v),
     Arch |-> Arch(v), Release |-> Release(v), TStamp |-> TStamp(v),
     Compiler |-> Compiler(v)]

\* C9 (as claimed): once NewVersion has returned a record, no call on the
\* record and nothing a caller does with what the calls returned changes what
\* any accessor returns.
C9_RecordImmutable == [][Succeeded => Observed' = Observed]_vars

\* C10: Semver() of a built record is the version string it was built from,
\* String() returns the same, and the config of TestNewVersion ("1.2.3",
\* "prod", a valid timestamp) builds with Semver() "1.2.3" and no warning.
C10_SemverRoundTrip ==
    /\ Succeeded => (Semver(v) = cfg.VersionString /\ String(v) = Semver(v))
    /\ (Returned /\ cfg.VersionString = <<"1", ".", "2", ".", "3">>
          /\ cfg.Release = <<"p", "r", "o", "d">> /\ cfg.TStamp = TSTest)
        => /\ Succeeded
           /\ Semver(v) = <<"1", ".", "2", ".", "3">>
           /\ Len(WarningSeq) = 0

\* C10 witness: a record built from a version string with pre-release
\* identifiers and build metadata
C10_Witness ==
    /\ Succeeded
    /\ cfg.VersionString = VTwoPre
    /\ Len(v.semver.Pre) = 2 /\ Len(v.semver.Build) = 1

\* C11: on a record built from a version string with pre-release identifiers,
\* Pre() does not fail and returns the first identifier only, as plain text:
\* the text between the first hyphen and the first dot or plus sign after it,
\* so that a hyphen inside the identifier does not split it, and later
\* identifiers and build metadata are left out ("1.2.3-2-ga1b2c3d" gives
\* "2-ga1b2c3d").
C11_PreReturnsFirstIdentifier ==
    /\ (Succeeded /\ HasPreRelease(cfg.VersionString)) =>
          /\ ~PrePanics(v)
          /\ Pre(v) = Split(PreSection(cfg.VersionString), ".")[1]
          /\ last.op = "Pre" => (pc # "panic" /\ last.val = Pre(v))
    /\ (Succeeded /\ cfg.VersionString = VPre) =>
          Pre(v) = <<"2", "-", "g", "a", "1", "b", "2", "c", "3", "d">>

\* C11 witness: Pre() has been called on a record built from a version string
\* with two pre-release identifiers and build metadata, and returned the
\* first identifier
C11_Witness ==
    /\ Succeeded
    /\ cfg.VersionString = VTwoPre
    /\ last.op = "Pre"
    /\ last.val = <<"a", "l", "p", "h", "a">>

\* C12: the record NewVersion returns never carries an error: Err() is nil
\* after a successful and after a failed construction alike, and a failure
\* shows only in NewVersion's second return value.
C12_RecordErrNeverSet ==
    Returned =>
      /\ Err(v) = NoErr
      /\ last.op = "Err" => last.val = NoErr
      /\ pc = "failed" => err # NoErr

\* C12 witness: Err() has been called on the record of a failed construction
\* and returned nil while NewVersion's error was not nil
C12_Witness ==
    /\ pc = "failed"
    /\ err # NoErr
    /\ last.op = "Err"
    /\ last.val = NoErr

=============================================================================
